---- MODULE Spec2Model ----
(***************************************************************************)
(* Model of src/bot.py: the Telegram notification bot.                     *)
(*                                                                         *)
(*  - the Session Store: the two module-level dicts AUTHORIZED (owner      *)
(*    sessions, keyed by Telegram user id) and AUTHENTICATED_STAFF_DETAILS *)
(*    (staff sessions, keyed by chat id).  Python dicts keep insertion     *)
(*    order, so each is a sequence of entries;                             *)
(*  - the Authentication Dialogue: the ConversationHandler built in main() *)
(*    and its handlers start, button_callback_handler, get_owner_email,    *)
(*    get_owner_password, get_staff_email, get_staff_password, cancel.     *)
(*    The framework handles one update at a time, so a handler is one      *)
(*    action;                                                              *)
(*  - the Notification Router: handle_notify, an aiohttp request handler   *)
(*    that suspends at every send_message.  It is modelled in steps, one   *)
(*    per span between two suspension points, so that dialogue handlers    *)
(*    interleave with it exactly where the event loop lets them.           *)
(*                                                                         *)
(* Environment assumptions: the replies a dialogue handler sends to its    *)
(* own chat are delivered (reply_text does not raise); logging is not      *)
(* modelled.                                                               *)
(***************************************************************************)
EXTENDS Integers, Sequences, FiniteSets, TLC

VARIABLES
    conv,        \* ConversationHandler state per (chat, user) key
    user_data,   \* context.user_data: one dict per Telegram user
    AUTHORIZED,  \* owner sessions, in insertion order
    AUTHENTICATED_STAFF_DETAILS,  \* staff sessions, in insertion order
    npc,         \* where the in-flight handle_notify is suspended
    nreq,        \* the request body of the current or last handle_notify
    it,          \* the dict iterator of the staff loop of handle_notify
    sent,        \* the send_message calls of the current handle_notify
    nresp,       \* the HTTP response of the last finished handle_notify
    handled,     \* the number of POST /notify requests received so far
    store0,      \* the Session Store as the current or last request found it
    update_queue,  \* app.update_queue: the updates received and not yet handled
    call,        \* the update whose password handler is suspended in its Verifier call
    app,         \* the global app: "None", "initialized", or "running" (taking updates)
    webhook,     \* the last POST /telegram/webhook: its body and the status it got
    last         \* the last handler that ran, and what it returned

vars == <<conv, user_data, AUTHORIZED, AUTHENTICATED_STAFF_DETAILS,
          npc, nreq, it, sent, nresp, handled, store0, update_queue, call,
          app, webhook, last>>

(***************************************************************************)
(* Python / JSON values.  A value is a pair <<type, literal>>, so that the *)
(* string "1" and the number 1 are different values, as they are for       *)
(* Python's == .                                                           *)
(***************************************************************************)
Absent == <<"absent", "">>
None == <<"none", "">>
Str(s) == <<"str", s>>
Num(s) == <<"num", s>>
PyTrue == <<"bool", "True">>
PyFalse == <<"bool", "False">>

\* dict.get(key, default) on a JSON object
Get(v, default) == IF v = Absent THEN default ELSE v

\* Python truth value
Truthy(v) == v \notin {Absent, None, Str(""), Num("0"), PyFalse}

IsStr(v) == v[1] = "str"

\* str.strip() on a message text (a sequence of characters)
RECURSIVE LStrip(_)
LStrip(s) == IF s # <<>> /\ Head(s) = " " THEN LStrip(Tail(s)) ELSE s

RECURSIVE RStrip(_)
RStrip(s) == IF s # <<>> /\ s[Len(s)] = " " THEN RStrip(SubSeq(s, 1, Len(s) - 1)) ELSE s

\* faulty variant: the text is taken as it came
StripNothing(s) == s

Strip(s) == RStrip(LStrip(s))

(***************************************************************************)
(* Insertion-ordered dicts: a sequence of entries, each with its key.      *)
(***************************************************************************)
DictKeys(d) == {d[i].key : i \in 1..Len(d)}

\* faulty variant: no key is ever found
DictHasNever(d, k) == FALSE

DictHas(d, k) == k \in DictKeys(d)

DictIndex(d, k) == CHOOSE i \in 1..Len(d) : d[i].key = k

\* faulty variant: the entry is always added, also under a key the dict has
DictSetAdds(d, e) == Append(d, e)

\* d[k] = e: an existing key keeps its place, a new key goes last
DictSet(d, e) ==
    IF DictHas(d, e.key)
    THEN [d EXCEPT ![DictIndex(d, e.key)] = e]
    ELSE Append(d, e)

\* faulty variant: the whole dict is cleared
DictDelClears(d, k) == <<>>

\* del d[k]
DictDel(d, k) ==
    LET i == DictIndex(d, k)
    IN  SubSeq(d, 1, i - 1) \o SubSeq(d, i + 1, Len(d))

(***************************************************************************)
(* Conversation states (line 38) and ConversationHandler.END.              *)
(***************************************************************************)
AUTH_CHOICE == 0
GET_STAFF_EMAIL == 1
GET_STAFF_PASSWORD == 2
GET_OWNER_EMAIL == 3
GET_OWNER_PASSWORD == 4
END == -1

Chats == {"c1", "c2"}
Users == {"u1", "u2"}

\* The conversations that take part: u1 and u2 in their own chats, and u1 in
\* the chat of u2 as well (a group chat).
Dialogues == {<<"c1", "u1">>, <<"c2", "u2">>, <<"c2", "u1">>}

\* The number of POST /notify requests a run of SpecNotify receives.
MaxNotify == 1

\* Message texts a user sends (never a command, never empty).
Texts == {<<" ">>, <<" ", "a", " ">>}

BackendIds == {Str("U1"), Str("U2")}
Tenants == {Str("1"), Num("1"), Str("2")}


(***************************************************************************)
(* context.user_data: a dict with the keys the handlers set.  get() of a   *)
(* missing key gives None, which the handlers only test with "not email";  *)
(* the empty text stands for it.                                           *)
(***************************************************************************)
EmptyDict == [k \in {} |-> <<>>]

UserDataSet(d, k, v) == [x \in DOMAIN d \cup {k} |-> IF x = k THEN v ELSE d[x]]

UserDataGet(d, k) == IF k \in DOMAIN d THEN d[k] ELSE <<>>

(***************************************************************************)
(* The Credential Verifier's answer to one login call, as far as the       *)
(* handlers read it: whether session.post raised, the HTTP status, whether *)
(* the body is a JSON object, and the fields of that object ("present":    *)
(* the body has a "user" / "staff" object).                                *)
(***************************************************************************)
NoResp ==
    [raises |-> FALSE, status |-> 200, json |-> TRUE, present |-> FALSE,
     id |-> Absent, websiteId |-> Absent, name |-> Absent, token |-> Absent,
     message |-> Absent]

FailureResponses ==
    {[NoResp EXCEPT !.raises = TRUE]}
    \cup {[NoResp EXCEPT !.json = FALSE, !.status = s] : s \in {200, 401}}
    \cup {[NoResp EXCEPT !.status = 401, !.message = m] : m \in {Absent, Str("bad"), None}}

\* a 200 that lacks the user / staff object, its id, or the token
MalformedResponses ==
    {[NoResp EXCEPT !.token = Str("T")],
     [NoResp EXCEPT !.present = TRUE, !.token = Str("T")],
     [NoResp EXCEPT !.present = TRUE, !.id = Str("U1")]}

OwnerResponses ==
    FailureResponses \cup MalformedResponses
    \cup {[NoResp EXCEPT !.present = TRUE, !.id = i, !.token = Str("T")] : i \in BackendIds}

StaffResponses ==
    FailureResponses \cup MalformedResponses
    \cup {[NoResp EXCEPT !.present = TRUE, !.id = Str("S1"), !.token = Str("T"),
                         !.websiteId = w] : w \in Tenants}
    \cup {[NoResp EXCEPT !.present = TRUE, !.id = Str("S1"), !.token = Str("T"),
                         !.websiteId = Str("1"), !.name = None]}

(***************************************************************************)
(* ConversationHandler (main, lines 443-465): which handler takes an       *)
(* update in a conversation state.  Entry points come first because of     *)
(* allow_reentry, then the handlers of the state, then the fallbacks; a    *)
(* conversation that has ended has only the entry points.                  *)
(* Update kinds: "cmd_start", "cmd_cancel", "text" (TEXT & ~COMMAND),      *)
(* "cb_auth_owner", "cb_auth_staff", "cb_other" (callback queries).        *)
(***************************************************************************)
UpdateKinds == {"cmd_start", "cmd_cancel", "text", "cb_auth_owner", "cb_auth_staff", "cb_other"}

HandlerFor(state, kind) ==
    IF kind = "cmd_start" THEN "start"
    ELSE IF state = END THEN "none"
    ELSE IF state = AUTH_CHOICE /\ kind \in {"cb_auth_owner", "cb_auth_staff"}
         THEN "button_callback_handler"
    ELSE IF state = GET_OWNER_EMAIL /\ kind = "text" THEN "get_owner_email"
    ELSE IF state = GET_OWNER_PASSWORD /\ kind = "text" THEN "get_owner_password"
    ELSE IF state = GET_STAFF_EMAIL /\ kind = "text" THEN "get_staff_email"
    ELSE IF state = GET_STAFF_PASSWORD /\ kind = "text" THEN "get_staff_password"
    ELSE IF kind = "cmd_cancel" THEN "cancel"
    ELSE "none"

\* a message text of spaces only
IsBlank(text) == \A i \in 1..Len(text) : text[i] = " "

\* What the last handler was: its name, its conversation key, the state the
\* conversation was in, whether a session under its key was in the store it
\* writes to, whether its input text was blank, whether it called the
\* Verifier and what the Verifier answered.
Last(op, c, u, from, had, blank, called, resp) ==
    [op |-> op, c |-> c, u |-> u, from |-> from, had |-> had, blank |-> blank,
     called |-> called, resp |-> resp]

\* a handler that takes no text and calls no Verifier
Plain(op, c, u, had) == Last(op, c, u, conv[<<c, u>>], had, FALSE, FALSE, NoResp)

SetConv(c, u, ret) == conv' = [conv EXCEPT ![<<c, u>>] = ret]

NotifyUnchanged == UNCHANGED <<npc, nreq, sent, nresp, handled, store0, app, webhook>>


(***************************************************************************)
(* The dict iterator of the staff loop (line 391).  CPython's iterator     *)
(* keeps the dict's size at its creation (used), the slot it has reached   *)
(* (pos) and the number of entries it still expects (len).  del leaves an  *)
(* empty slot behind and never moves an entry, so the slots before pos are *)
(* the entries already passed; with the dict kept as the sequence of its   *)
(* live entries, pos is the number of live entries already passed, and a   *)
(* del of one of them takes one off pos.                                   *)
(***************************************************************************)
NoIter == [used |-> 0, pos |-> 0, len |-> 0]

NewIter(d) == [used |-> Len(d), pos |-> 0, len |-> Len(d)]

IterAfterDel(iter, d, k) ==
    IF npc = "staff_send" /\ DictIndex(d, k) <= iter.pos
    THEN [iter EXCEPT !.pos = @ - 1]
    ELSE iter

(***************************************************************************)
(* start (lines 61-91): logs the user out as owner (by user id) and the    *)
(* chat out as staff (by chat id), then offers the role choice.            *)
(***************************************************************************)
StartReturn == AUTH_CHOICE

Start(c, u) ==
    /\ HandlerFor(conv[<<c, u>>], "cmd_start") = "start"
    /\ AUTHORIZED' = IF DictHas(AUTHORIZED, u) THEN DictDel(AUTHORIZED, u) ELSE AUTHORIZED
    /\ IF DictHas(AUTHENTICATED_STAFF_DETAILS, c)
       THEN /\ AUTHENTICATED_STAFF_DETAILS' = DictDel(AUTHENTICATED_STAFF_DETAILS, c)
            /\ it' = IterAfterDel(it, AUTHENTICATED_STAFF_DETAILS, c)
       ELSE UNCHANGED <<AUTHENTICATED_STAFF_DETAILS, it>>
    /\ SetConv(c, u, StartReturn)
    /\ last' = Plain("start", c, u,
                     DictHas(AUTHORIZED, u) \/ DictHas(AUTHENTICATED_STAFF_DETAILS, c))
    /\ UNCHANGED user_data
    /\ NotifyUnchanged

(***************************************************************************)
(* button_callback_handler (lines 93-126)                                  *)
(***************************************************************************)
ButtonReturn(data) ==
    IF data = "cb_auth_owner" THEN GET_OWNER_EMAIL
    ELSE IF data = "cb_auth_staff" THEN GET_STAFF_EMAIL
    ELSE END

ButtonCallbackHandler(c, u, data) ==
    /\ HandlerFor(conv[<<c, u>>], data) = "button_callback_handler"
    /\ SetConv(c, u, ButtonReturn(data))
    /\ last' = Plain("button_callback_handler", c, u, FALSE)
    /\ UNCHANGED <<user_data, AUTHORIZED, AUTHENTICATED_STAFF_DETAILS, it>>
    /\ NotifyUnchanged

(***************************************************************************)
(* get_owner_email (lines 128-146), get_staff_email (lines 227-245)        *)
(***************************************************************************)
EmailStep(c, u, text, handler, key, same, next) ==
    /\ HandlerFor(conv[<<c, u>>], "text") = handler
    /\ LET email == Strip(text)
       IN  IF email = <<>>
           THEN /\ SetConv(c, u, same)
                /\ UNCHANGED user_data
           ELSE /\ user_data' = [user_data EXCEPT ![u] = UserDataSet(@, key, email)]
                /\ SetConv(c, u, next)
    /\ last' = Last(handler, c, u, conv[<<c, u>>], FALSE, IsBlank(text), FALSE, NoResp)
    /\ UNCHANGED <<AUTHORIZED, AUTHENTICATED_STAFF_DETAILS, it>>
    /\ NotifyUnchanged

GetOwnerEmail(c, u, text) ==
    EmailStep(c, u, text, "get_owner_email", "owner_email", GET_OWNER_EMAIL, GET_OWNER_PASSWORD)

GetStaffEmail(c, u, text) ==
    EmailStep(c, u, text, "get_staff_email", "staff_email", GET_STAFF_EMAIL, GET_STAFF_PASSWORD)

(***************************************************************************)
(* get_owner_password (lines 148-225).  OwnerVerdict is the path the try   *)
(* block takes on a Verifier answer: "success" stores the session,         *)
(* "malformed" is a 200 without user id or token, "rejected" is a non-200  *)
(* whose error body was read, "exception" is the except branch (the post   *)
(* raised, response.json() raised, or escape_markdown got a non-string).   *)
(***************************************************************************)
\* faulty variant: every 200 with a JSON body counts as a login
OwnerVerdictTrusts200(resp) ==
    IF resp.raises \/ ~resp.json THEN "exception"
    ELSE IF resp.status = 200 THEN "success"
    ELSE IF IsStr(Get(resp.message, Str("Unknown error during login.")))
         THEN "rejected"
         ELSE "exception"

OwnerVerdict(resp) ==
    IF resp.raises THEN "exception"
    ELSE IF ~resp.json THEN "exception"
    ELSE IF resp.status = 200
         THEN IF resp.present /\ Truthy(resp.id) /\ Truthy(resp.token)
              THEN "success"
              ELSE "malformed"
    ELSE IF IsStr(Get(resp.message, Str("Unknown error during login.")))
         THEN "rejected"
         ELSE "exception"

\* faulty variant: a rejected login ends the conversation
OwnerReturnEnds(verdict) == END

OwnerReturn(verdict) ==
    IF verdict = "rejected" THEN GET_OWNER_PASSWORD ELSE END

\* faulty variant: the session keeps the user id where the chat id belongs
OwnerSessionUserAsChat(c, u, email, resp) ==
    [key |-> u, chat_id |-> u, user_id |-> resp.id, token |-> resp.token, email |-> email]

OwnerSession(c, u, email, resp) ==
    [key |-> u, chat_id |-> c, user_id |-> resp.id, token |-> resp.token, email |-> email]

GetOwnerPassword(c, u, text, resp) ==
    /\ HandlerFor(conv[<<c, u>>], "text") = "get_owner_password"
    /\ LET password == Strip(text)
           email == UserDataGet(user_data[u], "owner_email")
           verdict == OwnerVerdict(resp)
       IN  IF password = <<>>
           THEN /\ SetConv(c, u, GET_OWNER_PASSWORD)
                /\ last' = Last("get_owner_password", c, u, conv[<<c, u>>],
                                 DictHas(AUTHORIZED, u), IsBlank(text), FALSE, NoResp)
                /\ UNCHANGED AUTHORIZED
           ELSE IF email = <<>>
           THEN /\ SetConv(c, u, END)
                /\ last' = Last("get_owner_password", c, u, conv[<<c, u>>],
                                 DictHas(AUTHORIZED, u), IsBlank(text), FALSE, NoResp)
                /\ UNCHANGED AUTHORIZED
           ELSE /\ AUTHORIZED' = IF verdict = "success"
                                 THEN DictSet(AUTHORIZED, OwnerSession(c, u, email, resp))
                                 ELSE AUTHORIZED
                /\ SetConv(c, u, OwnerReturn(verdict))
                /\ last' = Last("get_owner_password", c, u, conv[<<c, u>>],
                                 DictHas(AUTHORIZED, u), IsBlank(text), TRUE, resp)
    /\ UNCHANGED <<user_data, AUTHENTICATED_STAFF_DETAILS, it>>
    /\ NotifyUnchanged

(***************************************************************************)
(* get_staff_password (lines 247-327).  As for the owner; on the success   *)
(* path escape_markdown(staff_name) (line 284) comes before the session is *)
(* stored, so a name that is not a string ends in the except branch.       *)
(***************************************************************************)
\* faulty variant: every 200 with a JSON body counts as a login
StaffVerdictTrusts200(resp) ==
    IF resp.raises \/ ~resp.json THEN "exception"
    ELSE IF resp.status = 200 THEN "success"
    ELSE IF IsStr(Get(resp.message, Str("Unknown error during login.")))
         THEN "rejected"
         ELSE "exception"

StaffVerdict(resp) ==
    IF resp.raises THEN "exception"
    ELSE IF ~resp.json THEN "exception"
    ELSE IF resp.status = 200
         THEN IF resp.present /\ Truthy(resp.id) /\ Truthy(resp.token)
              THEN IF IsStr(Get(resp.name, Str("Staff Member")))
                   THEN "success"
                   ELSE "exception"
              ELSE "malformed"
    ELSE IF IsStr(Get(resp.message, Str("Unknown error during login.")))
         THEN "rejected"
         ELSE "exception"

\* faulty variant: a rejected login ends the conversation
StaffReturnEnds(verdict) == END

StaffReturn(verdict) ==
    IF verdict = "rejected" THEN GET_STAFF_PASSWORD ELSE END

StaffSession(c, email, resp) ==
    [key |-> c, staff_id |-> resp.id, email |-> email,
     website_id |-> Get(resp.websiteId, None),
     name |-> Get(resp.name, Str("Staff Member")), token |-> resp.token]

GetStaffPassword(c, u, text, resp) ==
    /\ HandlerFor(conv[<<c, u>>], "text") = "get_staff_password"
    /\ LET password == Strip(text)
           email == UserDataGet(user_data[u], "staff_email")
           verdict == StaffVerdict(resp)
       IN  IF password = <<>>
           THEN /\ SetConv(c, u, GET_STAFF_PASSWORD)
                /\ last' = Last("get_staff_password", c, u, conv[<<c, u>>],
                                 DictHas(AUTHENTICATED_STAFF_DETAILS, c), IsBlank(text), FALSE, NoResp)
                /\ UNCHANGED AUTHENTICATED_STAFF_DETAILS
           ELSE IF email = <<>>
           THEN /\ SetConv(c, u, END)
                /\ last' = Last("get_staff_password", c, u, conv[<<c, u>>],
                                 DictHas(AUTHENTICATED_STAFF_DETAILS, c), IsBlank(text), FALSE, NoResp)
                /\ UNCHANGED AUTHENTICATED_STAFF_DETAILS
           ELSE /\ AUTHENTICATED_STAFF_DETAILS' =
                       IF verdict = "success"
                       THEN DictSet(AUTHENTICATED_STAFF_DETAILS, StaffSession(c, email, resp))
                       ELSE AUTHENTICATED_STAFF_DETAILS
                /\ SetConv(c, u, StaffReturn(verdict))
                /\ last' = Last("get_staff_password", c, u, conv[<<c, u>>],
                                 DictHas(AUTHENTICATED_STAFF_DETAILS, c), IsBlank(text), TRUE, resp)
    /\ UNCHANGED <<user_data, AUTHORIZED, it>>
    /\ NotifyUnchanged

(***************************************************************************)
(* cancel (lines 329-340), the fallback of the conversation                *)
(***************************************************************************)
\* faulty variant: the collected emails are kept
CancelKeepsData(c, u) ==
    /\ HandlerFor(conv[<<c, u>>], "cmd_cancel") = "cancel"
    /\ SetConv(c, u, END)
    /\ last' = Plain("cancel", c, u, FALSE)
    /\ UNCHANGED <<user_data, AUTHORIZED, AUTHENTICATED_STAFF_DETAILS, it>>
    /\ NotifyUnchanged

Cancel(c, u) ==
    /\ HandlerFor(conv[<<c, u>>], "cmd_cancel") = "cancel"
    /\ user_data' = [user_data EXCEPT ![u] = EmptyDict]
    /\ SetConv(c, u, END)
    /\ last' = Plain("cancel", c, u, FALSE)
    /\ UNCHANGED <<AUTHORIZED, AUTHENTICATED_STAFF_DETAILS, it>>
    /\ NotifyUnchanged

\* an update no handler of the conversation takes: check_update gives None
\* and nothing runs
Ignored(c, u, kind) ==
    /\ HandlerFor(conv[<<c, u>>], kind) = "none"
    /\ last' = Plain("none", c, u, FALSE)
    /\ UNCHANGED <<conv, user_data, AUTHORIZED, AUTHENTICATED_STAFF_DETAILS, it>>
    /\ NotifyUnchanged


(***************************************************************************)
(* handle_notify (lines 342-403).                                          *)
(* A request body: "invalid" (request.json() raises), "nonobject" (JSON    *)
(* that is no object, so data.get raises) or "object" with its fields.     *)
(***************************************************************************)
NoEvent ==
    [parse |-> "invalid", message |-> Absent, websiteId |-> Absent,
     notifyOwner |-> Absent, notifyAllStaff |-> Absent, ownerId |-> Absent]

\* bodies with a usable message, over every combination of the other fields
GoodEvents ==
    {[parse |-> "object", message |-> Str("m"), websiteId |-> w,
      notifyOwner |-> o, notifyAllStaff |-> s, ownerId |-> i] :
        w \in {Absent} \cup Tenants,
        o \in {Absent, PyTrue}, s \in {Absent, PyTrue},
        i \in {Absent} \cup BackendIds}

\* bodies that do not parse, are no object, or whose message is missing,
\* empty or not a string, with and without the flags
BadEvents ==
    {NoEvent, [NoEvent EXCEPT !.parse = "nonobject"]}
    \cup {[parse |-> "object", message |-> m, websiteId |-> Str("1"),
           notifyOwner |-> f, notifyAllStaff |-> f, ownerId |-> Str("U1")] :
             m \in {Absent, Str(""), Num("5")}, f \in {Absent, PyTrue}}

Events == GoodEvents \cup BadEvents

Response(status, result) == [status |-> status, result |-> result]

NoResponse == Response(0, "none")

\* lines 371-375: the chat of the first owner session with this backend id
RECURSIVE FindOwner(_, _, _)
FindOwner(auth, ownerId, i) ==
    IF i > Len(auth) THEN None
    ELSE IF auth[i].user_id = ownerId THEN Str(auth[i].chat_id)
    ELSE FindOwner(auth, ownerId, i + 1)

\* line 392: a staff session is notified when its website_id == websiteId
StaffMatches(entry, websiteId) == entry.website_id = websiteId

\* lines 391-392: the for statement asks the iterator for the next entry
\* until one matches (a send follows), the dict is exhausted, or the
\* iterator finds the dict changed under it and raises RuntimeError
RECURSIVE StaffNext(_, _, _)
StaffNext(iter, staff, websiteId) ==
    IF iter.used # Len(staff) THEN [kind |-> "RuntimeError", it |-> iter, chat |-> ""]
    ELSE IF iter.pos >= Len(staff) THEN [kind |-> "StopIteration", it |-> iter, chat |-> ""]
    ELSE IF iter.len = 0 THEN [kind |-> "RuntimeError", it |-> iter, chat |-> ""]
    ELSE LET entry == staff[iter.pos + 1]
             nit == [iter EXCEPT !.pos = @ + 1, !.len = @ - 1]
         IN  IF StaffMatches(entry, websiteId)
             THEN [kind |-> "send", it |-> nit, chat |-> entry.key]
             ELSE StaffNext(nit, staff, websiteId)

Dispatch(to, chat) == [to |-> to, chat |-> chat, outcome |-> "pending"]

\* the outcome of the send_message that was in flight
Settle(msgs, ok) ==
    [msgs EXCEPT ![Len(msgs)].outcome = IF ok THEN "delivered" ELSE "raised"]

\* an exception that leaves handle_notify: aiohttp answers 500
Raise(ev, msgs) ==
    /\ npc' = "idle"
    /\ nreq' = ev
    /\ it' = NoIter
    /\ sent' = msgs
    /\ nresp' = Response(500, "exception")

Reject(ev, result) ==
    /\ npc' = "idle"
    /\ nreq' = ev
    /\ it' = NoIter
    /\ sent' = <<>>
    /\ nresp' = Response(400, result)

\* lines 391-403: the staff loop from the iterator's place on, up to the
\* next send_message or to the response
StaffLoop(ev, iter, msgs) ==
    LET r == StaffNext(iter, AUTHENTICATED_STAFF_DETAILS, Get(ev.websiteId, Str("N/A")))
    IN  IF r.kind = "send"
        THEN /\ npc' = "staff_send"
             /\ nreq' = ev
             /\ it' = r.it
             /\ sent' = Append(msgs, Dispatch("staff", r.chat))
             /\ UNCHANGED nresp
        ELSE IF r.kind = "RuntimeError"
        THEN Raise(ev, msgs)
        ELSE /\ npc' = "idle"
             /\ nreq' = ev
             /\ it' = NoIter
             /\ sent' = msgs
             /\ nresp' = Response(200, "ok")

\* lines 386-403
StaffPart(ev, msgs) ==
    IF Truthy(Get(ev.notifyAllStaff, PyFalse))
    THEN StaffLoop(ev, NewIter(AUTHENTICATED_STAFF_DETAILS), msgs)
    ELSE /\ npc' = "idle"
         /\ nreq' = ev
         /\ it' = NoIter
         /\ sent' = msgs
         /\ nresp' = Response(200, "ok")

\* lines 370-384
OwnerPart(ev) ==
    LET owner_id == Get(ev.ownerId, None)
        owner_chat == FindOwner(AUTHORIZED, owner_id, 1)
    IN  IF Truthy(Get(ev.notifyOwner, PyFalse)) /\ Truthy(owner_id) /\ Truthy(owner_chat)
        THEN /\ npc' = "owner_send"
             /\ nreq' = ev
             /\ it' = NoIter
             /\ sent' = <<Dispatch("owner", owner_chat[2])>>
             /\ UNCHANGED nresp
        ELSE StaffPart(ev, <<>>)

\* lines 347-368: parse, validate, build the message text
NotifyEntry(ev) ==
    IF ev.parse = "invalid" THEN Reject(ev, "error")
    ELSE IF ev.parse = "nonobject" THEN Raise(ev, <<>>)
    ELSE IF ~Truthy(Get(ev.message, None)) THEN Reject(ev, "error")
    ELSE IF ~IsStr(ev.message) THEN Raise(ev, <<>>)
    ELSE IF ~IsStr(Get(ev.websiteId, Str("N/A"))) THEN Raise(ev, <<>>)
    ELSE OwnerPart(ev)

NotifyLast == Last("handle_notify", "", "", END, FALSE, FALSE, FALSE, NoResp)

\* a POST /notify arrives and runs up to its first suspension or its response
NotifyReceive(ev) ==
    /\ npc = "idle"
    /\ handled < MaxNotify
    /\ handled' = handled + 1
    /\ store0' = [owners |-> AUTHORIZED, staff |-> AUTHENTICATED_STAFF_DETAILS]
    /\ NotifyEntry(ev)
    /\ last' = NotifyLast
    /\ UNCHANGED <<conv, user_data, AUTHORIZED, AUTHENTICATED_STAFF_DETAILS, update_queue, call,
                   app, webhook>>

\* the send_message to the owner returns or raises (lines 378-382)
NotifyOwnerSent(ok) ==
    /\ npc = "owner_send"
    /\ StaffPart(nreq, Settle(sent, ok))
    /\ last' = NotifyLast
    /\ UNCHANGED <<conv, user_data, AUTHORIZED, AUTHENTICATED_STAFF_DETAILS, handled, store0,
                   update_queue, call, app, webhook>>

\* faulty variant: a send_message that raises is not caught
NotifyStaffSentUncaught(ok) ==
    /\ npc = "staff_send"
    /\ IF ok THEN StaffLoop(nreq, it, Settle(sent, ok)) ELSE Raise(nreq, Settle(sent, ok))
    /\ last' = NotifyLast
    /\ UNCHANGED <<conv, user_data, AUTHORIZED, AUTHENTICATED_STAFF_DETAILS, handled, store0,
                   update_queue, call, app, webhook>>

\* the send_message to a staff chat returns or raises (lines 393-398)
NotifyStaffSent(ok) ==
    /\ npc = "staff_send"
    /\ StaffLoop(nreq, it, Settle(sent, ok))
    /\ last' = NotifyLast
    /\ UNCHANGED <<conv, user_data, AUTHORIZED, AUTHENTICATED_STAFF_DETAILS, handled, store0,
                   update_queue, call, app, webhook>>

\* no password handler is suspended in a Verifier call
NoCall == [c |-> "", u |-> "", kind |-> "none", text |-> <<>>, late |-> FALSE]

\* no POST /telegram/webhook has been received
NoWebhook == [body |-> [parse |-> "none", c |-> "", u |-> "", kind |-> "none"], status |-> 0]

\* the update is handled as it arrives: no update waits, no call is in flight
QueueIdle == UNCHANGED <<update_queue, call>>

(***************************************************************************)
(* The program with its application taking updates, which is what the      *)
(* handlers' behaviour supposes (Init), and its steps.  What main() itself *)
(* brings about is InitMain and Main, further down.                        *)
(***************************************************************************)
Init ==
    /\ conv = [d \in Chats \X Users |-> END]
    /\ user_data = [u \in Users |-> EmptyDict]
    /\ AUTHORIZED = <<>>
    /\ AUTHENTICATED_STAFF_DETAILS = <<>>
    /\ npc = "idle"
    /\ nreq = NoEvent
    /\ it = NoIter
    /\ sent = <<>>
    /\ nresp = NoResponse
    /\ handled = 0
    /\ store0 = [owners |-> <<>>, staff |-> <<>>]
    /\ update_queue = <<>>
    /\ call = NoCall
    /\ app = "running"
    /\ webhook = NoWebhook
    /\ last = Last("init", "", "", END, FALSE, FALSE, FALSE, NoResp)

Dialogue(c, u) ==
    \/ Start(c, u) /\ QueueIdle
    \/ \E data \in {"cb_auth_owner", "cb_auth_staff"} :
           ButtonCallbackHandler(c, u, data) /\ QueueIdle
    \/ \E text \in Texts : GetOwnerEmail(c, u, text) /\ QueueIdle
    \/ \E text \in Texts, resp \in OwnerResponses :
           GetOwnerPassword(c, u, text, resp) /\ QueueIdle
    \/ \E text \in Texts : GetStaffEmail(c, u, text) /\ QueueIdle
    \/ \E text \in Texts, resp \in StaffResponses :
           GetStaffPassword(c, u, text, resp) /\ QueueIdle
    \/ Cancel(c, u) /\ QueueIdle
    \/ \E kind \in UpdateKinds : Ignored(c, u, kind) /\ QueueIdle

Notify ==
    \/ \E ev \in Events : NotifyReceive(ev)
    \/ \E ok \in BOOLEAN : NotifyOwnerSent(ok)
    \/ \E ok \in BOOLEAN : NotifyStaffSent(ok)

\* The dialogue on its own: every update is handled as it arrives.
Next == \E d \in Dialogues : Dialogue(d[1], d[2])

Spec == Init /\ [][Next]_vars

(***************************************************************************)
(* The Notification Router at work.  A POST /notify can arrive in any      *)
(* state of the Session Store, so SpecNotify starts from the stores that   *)
(* logins leave behind: every order and choice of owner sessions of u1     *)
(* and u2 and of staff sessions of c1 and c2, with every conversation      *)
(* ended but at most one, which has collected its staff email and waits    *)
(* for the password.  While a send_message of handle_notify is in flight   *)
(* the dialogue handlers that change the Session Store run: start and      *)
(* get_staff_password of u1 in c1 and of u2 in c2.  (Between two requests  *)
(* they would only lead to another of the stores SpecNotify starts from.)  *)
(***************************************************************************)
RECURSIVE Orders(_)
Orders(S) ==
    IF S = {} THEN {<<>>}
    ELSE UNION {{<<x>> \o rest : rest \in Orders(S \ {x})} : x \in S}

\* the dicts with exactly the keys K, in every order, each entry drawn from of[k]
DictsOver(K, of) ==
    UNION {{[i \in 1..Len(o) |-> f[o[i]]] :
               f \in {g \in [K -> UNION {of[k] : k \in K}] : \A k \in K : g[k] \in of[k]}}
           : o \in Orders(K)}

HomeChat(u) == IF u = "u1" THEN "c1" ELSE "c2"

OwnerSessionsOf(u) ==
    {[key |-> u, chat_id |-> HomeChat(u), user_id |-> i, token |-> Str("T"), email |-> <<"a">>] :
        i \in BackendIds}

StaffSessionsOf(c) ==
    {[key |-> c, staff_id |-> Str("S1"), email |-> <<"a">>, website_id |-> w,
      name |-> Str("Staff Member"), token |-> Str("T")] : w \in Tenants}

OwnerStores == UNION {DictsOver(K, [u \in Users |-> OwnerSessionsOf(u)]) : K \in SUBSET Users}

StaffStores == UNION {DictsOver(K, [c \in Chats |-> StaffSessionsOf(c)]) : K \in SUBSET Chats}

\* the Verifier's answers to the staff login that runs beside a request:
\* the logins that succeed, and one that is rejected
LoginResponses ==
    {r \in StaffResponses : StaffVerdict(r) = "success"}
    \cup {[NoResp EXCEPT !.status = 401, !.message = Str("bad")]}

NotifyDialogues == {<<HomeChat(u), u>> : u \in Users}

InitNotify ==
    /\ \E P \in {{}} \cup {{d} : d \in NotifyDialogues} :
           conv = [d \in Chats \X Users |-> IF d \in P THEN GET_STAFF_PASSWORD ELSE END]
    /\ user_data = [u \in Users |-> UserDataSet(EmptyDict, "staff_email", <<"a">>)]
    /\ AUTHORIZED \in OwnerStores
    /\ AUTHENTICATED_STAFF_DETAILS \in StaffStores
    /\ npc = "idle"
    /\ nreq = NoEvent
    /\ it = NoIter
    /\ sent = <<>>
    /\ nresp = NoResponse
    /\ handled = 0
    /\ store0 = [owners |-> <<>>, staff |-> <<>>]
    /\ update_queue = <<>>
    /\ call = NoCall
    /\ app = "running"
    /\ webhook = NoWebhook
    /\ last = Last("init", "", "", END, FALSE, FALSE, FALSE, NoResp)

NextNotify ==
    \/ Notify
    \/ /\ npc # "idle"
       /\ QueueIdle
       /\ \E d \in NotifyDialogues :
             \/ Start(d[1], d[2])
             \/ \E resp \in LoginResponses : GetStaffPassword(d[1], d[2], <<"a">>, resp)

SpecNotify == InitNotify /\ [][NextNotify]_vars

(***************************************************************************)
(* The update queue.  telegram_webhook_handler (lines 406-426) puts each   *)
(* update on app.update_queue and returns; the application takes the       *)
(* updates from the queue one at a time and runs the handler of each to    *)
(* its end before it takes the next (the ApplicationBuilder of lines       *)
(* 435-441 sets no concurrent_updates and the handlers of lines 443-465    *)
(* are blocking).  A password handler suspends in session.post (lines 175, *)
(* 274); the updates that arrive meanwhile wait on the queue.  An update   *)
(* is marked late when it was put while the Verifier call of its own       *)
(* conversation was in flight.                                             *)
(***************************************************************************)
MaxQueue == 2

QueueDialogues == {<<"c1", "u1">>}

QueueKinds == {"cmd_start", "cmd_cancel", "text", "cb_auth_owner", "cb_auth_staff"}

\* the text of an update (commands and callback queries carry none here)
QueueText(kind) == IF kind = "text" THEN <<"a">> ELSE <<>>

\* lines 414-420: the update is put on the queue
Put(c, u, kind) ==
    /\ Len(update_queue) < MaxQueue
    /\ update_queue' = Append(update_queue,
                              [c |-> c, u |-> u, kind |-> kind, text |-> QueueText(kind),
                               late |-> call.kind # "none" /\ call.c = c /\ call.u = u])
    /\ webhook' = [body |-> [parse |-> "update", c |-> c, u |-> u, kind |-> kind],
                   status |-> 200]
    /\ UNCHANGED <<conv, user_data, AUTHORIZED, AUTHENTICATED_STAFF_DETAILS,
                   npc, nreq, it, sent, nresp, handled, store0, call, app, last>>

\* the handler of the update is a password handler that gets as far as its
\* Verifier call (lines 152-175, 251-274)
Suspends(upd) ==
    LET handler == HandlerFor(conv[<<upd.c, upd.u>>], upd.kind)
    IN  /\ handler \in {"get_owner_password", "get_staff_password"}
        /\ Strip(upd.text) # <<>>
        /\ UserDataGet(user_data[upd.u],
                       IF handler = "get_owner_password" THEN "owner_email"
                                                         ELSE "staff_email") # <<>>

\* the handler of an update that runs to its end without a Verifier call
Handle(upd) ==
    \/ upd.kind = "cmd_start" /\ Start(upd.c, upd.u)
    \/ upd.kind = "cmd_cancel" /\ Cancel(upd.c, upd.u)
    \/ upd.kind \in {"cb_auth_owner", "cb_auth_staff"}
           /\ ButtonCallbackHandler(upd.c, upd.u, upd.kind)
    \/ upd.kind = "text" /\ GetOwnerEmail(upd.c, upd.u, upd.text)
    \/ upd.kind = "text" /\ GetStaffEmail(upd.c, upd.u, upd.text)
    \/ upd.kind = "text" /\ GetOwnerPassword(upd.c, upd.u, upd.text, NoResp)
    \/ upd.kind = "text" /\ GetStaffPassword(upd.c, upd.u, upd.text, NoResp)
    \/ Ignored(upd.c, upd.u, upd.kind)

\* the application takes the next update when no handler is running
Fetch ==
    /\ app = "running"
    /\ call = NoCall
    /\ update_queue # <<>>
    /\ update_queue' = Tail(update_queue)
    /\ IF Suspends(Head(update_queue))
       THEN /\ call' = Head(update_queue)
            /\ UNCHANGED <<conv, user_data, AUTHORIZED, AUTHENTICATED_STAFF_DETAILS,
                           npc, nreq, it, sent, nresp, handled, store0, app, webhook, last>>
       ELSE /\ Handle(Head(update_queue))
            /\ UNCHANGED call

\* the Verifier call in flight returns or raises, and the password handler
\* runs to its end
VerifierAnswers ==
    /\ call # NoCall
    /\ \/ \E resp \in OwnerResponses : GetOwnerPassword(call.c, call.u, call.text, resp)
       \/ \E resp \in StaffResponses : GetStaffPassword(call.c, call.u, call.text, resp)
    /\ call' = NoCall
    /\ UNCHANGED update_queue

NextUpdates ==
    \/ \E d \in QueueDialogues, kind \in QueueKinds : Put(d[1], d[2], kind)
    \/ Fetch
    \/ VerifierAnswers

SpecUpdates == Init /\ [][NextUpdates]_vars

(***************************************************************************)
(* The startup of main() and the webhook endpoint.  main() (lines 429-500) *)
(* builds the application, adds the conversation handler, awaits           *)
(* app.initialize() and sets the webhook, then serves the two routes with  *)
(* web._run_app until shutdown.  It never awaits app.start(), and it is    *)
(* app.start() that creates the task which takes updates from              *)
(* app.update_queue: after main()'s startup the application is             *)
(* initialized, never running.  The endpoint is served only once main()    *)
(* has assigned app.                                                       *)
(***************************************************************************)
\* the request bodies: not JSON, a JSON value that is no update, an update
WebhookBodies ==
    {[parse |-> p, c |-> "", u |-> "", kind |-> "none"] : p \in {"invalid", "nonobject"}}
    \cup {[parse |-> "update", c |-> d[1], u |-> d[2], kind |-> kind] :
              d \in Dialogues, kind \in QueueKinds}

\* lines 413, 423, 426: the endpoint answers with an error status and puts nothing
Refuse(body, status) ==
    /\ webhook' = [body |-> body, status |-> status]
    /\ UNCHANGED <<conv, user_data, AUTHORIZED, AUTHENTICATED_STAFF_DETAILS, npc, nreq, it,
                   sent, nresp, handled, store0, update_queue, call, app, last>>

\* lines 406-426
TelegramWebhookHandler(body) ==
    IF app = "None" THEN Refuse(body, 500)
    ELSE IF body.parse = "invalid" THEN Refuse(body, 400)
    ELSE IF body.parse = "nonobject" THEN Refuse(body, 500)
    ELSE Put(body.c, body.u, body.kind)

\* lines 429-490: the startup sequence, up to the serving of the routes
Main ==
    /\ app = "None"
    /\ app' = "initialized"
    /\ UNCHANGED <<conv, user_data, AUTHORIZED, AUTHENTICATED_STAFF_DETAILS, npc, nreq, it,
                   sent, nresp, handled, store0, update_queue, call, webhook, last>>

\* the program as loaded, before main() runs (lines 41-42, 58)
InitMain ==
    /\ conv = [d \in Chats \X Users |-> END]
    /\ user_data = [u \in Users |-> EmptyDict]
    /\ AUTHORIZED = <<>>
    /\ AUTHENTICATED_STAFF_DETAILS = <<>>
    /\ npc = "idle"
    /\ nreq = NoEvent
    /\ it = NoIter
    /\ sent = <<>>
    /\ nresp = NoResponse
    /\ handled = 0
    /\ store0 = [owners |-> <<>>, staff |-> <<>>]
    /\ update_queue = <<>>
    /\ call = NoCall
    /\ app = "None"
    /\ webhook = NoWebhook
    /\ last = Last("init", "", "", END, FALSE, FALSE, FALSE, NoResp)

\* what runs after main(): the endpoint takes requests; nothing takes updates
\* from the queue, Fetch needing a running application
NextWebhook ==
    \/ Main
    \/ /\ app # "None"
       /\ \E body \in WebhookBodies : TelegramWebhookHandler(body)

SpecWebhook == InitMain /\ [][NextWebhook]_vars



(***************************************************************************)
(* Properties of the Authentication Dialogue and the Session Store         *)
(* (checked under Spec)                                                    *)
(***************************************************************************)
Key(l) == <<l.c, l.u>>

\* the dict without the entry of key k
Without(d, k) == SelectSeq(d, LAMBDA e : e.key # k)

\* the last handler was a login that the Verifier accepted
OwnerLoggedIn(l) ==
    l.op = "get_owner_password" /\ l.called /\ OwnerVerdict(l.resp) = "success"

StaffLoggedIn(l) ==
    l.op = "get_staff_password" /\ l.called /\ StaffVerdict(l.resp) = "success"

\* the Verifier answered the login call of the last handler with a status
\* other than 200
AnsweredNon200(l, op) ==
    l.op = op /\ l.called /\ ~l.resp.raises /\ l.resp.status # 200

\* ... and the body of that answer is a JSON object whose message, if it has
\* one, is a string
ReadableError(resp) ==
    resp.json /\ (resp.message = Absent \/ IsStr(resp.message))

StoreUnchanged == UNCHANGED <<AUTHORIZED, AUTHENTICATED_STAFF_DETAILS>>

\* C4 as claimed: after a successful owner login by u in chat c with backend
\* id U, the router's lookup of U yields c, whatever happened before.
C4_LookupYieldsLoginChat ==
    OwnerLoggedIn(last) => FindOwner(AUTHORIZED, last.resp.id, 1) = Str(last.c)

\* C4, amended: the login leaves one session of u, with chat c and backend id
\* U; the lookup of U yields the chat of the first session in the mapping
\* that carries U, which is c unless a session of another user with backend
\* id U stands before the session of u.
C4_LookupYieldsFirstSession ==
    OwnerLoggedIn(last) =>
        LET U == last.resp.id
            mine == {i \in 1..Len(AUTHORIZED) : AUTHORIZED[i].key = last.u}
            with == {i \in 1..Len(AUTHORIZED) : AUTHORIZED[i].user_id = U}
            first == CHOOSE i \in with : \A j \in with : i <= j
        IN  /\ Cardinality(mine) = 1
            /\ \A i \in mine : AUTHORIZED[i].chat_id = last.c /\ AUTHORIZED[i].user_id = U
            /\ FindOwner(AUTHORIZED, U, 1) = Str(AUTHORIZED[first].chat_id)
            /\ first \in mine => FindOwner(AUTHORIZED, U, 1) = Str(last.c)

\* u logged in again while another user's session with the same backend id
\* is in the mapping, and the lookup yields the chat of u
C4_Witness ==
    /\ OwnerLoggedIn(last)
    /\ Len(AUTHORIZED) = 2
    /\ AUTHORIZED[1].user_id = AUTHORIZED[2].user_id
    /\ FindOwner(AUTHORIZED, last.resp.id, 1) = Str(last.c)

\* C5: a start command of u in chat c, in any state of the conversation,
\* removes the owner session of u and the staff session of c, leaves every
\* other session as it was, and puts the conversation in AUTH_CHOICE.
C5_StartLogsOut ==
    [][last'.op = "start" =>
          /\ AUTHORIZED' = Without(AUTHORIZED, last'.u)
          /\ AUTHENTICATED_STAFF_DETAILS' = Without(AUTHENTICATED_STAFF_DETAILS, last'.c)
          /\ ~DictHas(AUTHORIZED', last'.u)
          /\ ~DictHas(AUTHENTICATED_STAFF_DETAILS', last'.c)
          /\ conv' = [conv EXCEPT ![Key(last')] = AUTH_CHOICE]]_vars

\* a start in the middle of a dialogue that removed a session and left the
\* session of another user in place
C5_Witness ==
    /\ last.op = "start"
    /\ last.from = GET_OWNER_PASSWORD
    /\ last.had
    /\ AUTHORIZED # <<>>

\* line 392 as a lookup: the staff sessions handle_notify selects for a tenant
ListStaffForTenant(staff, websiteId) ==
    {i \in 1..Len(staff) : StaffMatches(staff[i], websiteId)}

\* C6: after a successful staff login in chat c with tenant W, the session of
\* c is selected for W and for no other tenant; a later login in the same
\* chat replaces it.
C6_StaffListedForItsTenant ==
    StaffLoggedIn(last) =>
        \A w \in Tenants \cup {Str("N/A")} :
            Cardinality({i \in ListStaffForTenant(AUTHENTICATED_STAFF_DETAILS, w) :
                            AUTHENTICATED_STAFF_DETAILS[i].key = last.c})
                = IF w = last.resp.websiteId THEN 1 ELSE 0

\* a staff login in a chat that had a staff session, beside another chat's
C6_Witness ==
    /\ StaffLoggedIn(last)
    /\ last.had
    /\ Len(AUTHENTICATED_STAFF_DETAILS) = 2

\* C7 as claimed: every non-200 answer to an owner login leaves the
\* conversation in GET_OWNER_PASSWORD and the Session Store unchanged.
C7_OwnerNon200Retries ==
    [][AnsweredNon200(last', "get_owner_password") =>
          conv'[Key(last')] = GET_OWNER_PASSWORD /\ StoreUnchanged]_vars

\* C7, amended: so does every non-200 answer whose body is a JSON object
\* with a string message or none.
C7_OwnerRejectedRetries ==
    [][(AnsweredNon200(last', "get_owner_password") /\ ReadableError(last'.resp)) =>
          conv' = [conv EXCEPT ![Key(last')] = GET_OWNER_PASSWORD] /\ StoreUnchanged]_vars

C7_Witness ==
    /\ AnsweredNon200(last, "get_owner_password")
    /\ ReadableError(last.resp)
    /\ ~last.blank
    /\ conv[Key(last)] = GET_OWNER_PASSWORD

C9_BlankInputReprompts ==
    [][last'.blank =>
          /\ last'.from \in {GET_OWNER_EMAIL, GET_STAFF_EMAIL,
                             GET_OWNER_PASSWORD, GET_STAFF_PASSWORD}
          /\ conv' = conv
          /\ ~last'.called
          /\ StoreUnchanged]_vars

\* a blank password after a blank email was re-prompted and an email given
C9_Witness ==
    /\ last.blank
    /\ last.op = "get_staff_password"
    /\ conv[Key(last)] = GET_STAFF_PASSWORD
    /\ \E d \in Dialogues : conv[d] = GET_OWNER_EMAIL

\* the owner sessions an accepted login of a taking-part conversation can store
OwnerLogins ==
    {OwnerSession(d[1], d[2], <<"a">>, r) :
        d \in Dialogues, r \in {x \in OwnerResponses : OwnerVerdict(x) = "success"}}

\* C11: there is at most one owner session per Telegram user id; a successful
\* owner login leaves exactly the session it built under its user id, in the
\* place of an earlier one; storing the same session a second time leaves
\* the mapping as the first time left it.
C11_OwnerLoginIdempotent ==
    /\ \A i, j \in 1..Len(AUTHORIZED) : AUTHORIZED[i].key = AUTHORIZED[j].key => i = j
    /\ \A e \in OwnerLogins :
           LET once == DictSet(AUTHORIZED, e)
           IN  /\ DictSet(once, e) = once
               /\ Len(once) = IF DictHas(AUTHORIZED, e.key) THEN Len(AUTHORIZED)
                                                           ELSE Len(AUTHORIZED) + 1
    /\ OwnerLoggedIn(last) =>
           {AUTHORIZED[i] : i \in {j \in 1..Len(AUTHORIZED) : AUTHORIZED[j].key = last.u}}
               = {OwnerSession(last.c, last.u,
                               UserDataGet(user_data[last.u], "owner_email"), last.resp)}

\* a user with an owner session logged in again from another chat, beside
\* the session of another user
C11_Witness ==
    /\ OwnerLoggedIn(last)
    /\ last.had
    /\ Len(AUTHORIZED) = 2
    /\ OwnerSession(last.c, last.u, <<"a">>, last.resp) \in OwnerLogins

NonTerminal == {AUTH_CHOICE, GET_OWNER_EMAIL, GET_STAFF_EMAIL, GET_OWNER_PASSWORD, GET_STAFF_PASSWORD}

\* C14: in each of the five non-terminal states a cancel command is taken by
\* cancel, which ends the conversation, leaves no collected email in the
\* user's transient data, and leaves both mappings of the Session Store as
\* they were.
C14_CancelEndsDialogue ==
    [][/\ \A d \in Dialogues :
              conv[d] \in NonTerminal => HandlerFor(conv[d], "cmd_cancel") = "cancel"
       /\ last'.op = "cancel" =>
              /\ last'.from \in NonTerminal
              /\ conv' = [conv EXCEPT ![Key(last')] = END]
              /\ user_data'[last'.u] = EmptyDict
              /\ StoreUnchanged]_vars

\* a cancel at the password prompt, with an email collected and sessions in
\* both mappings
C14_Witness ==
    /\ last.op = "cancel"
    /\ last.from = GET_OWNER_PASSWORD
    /\ conv[Key(last)] = END
    /\ user_data[last.u] = EmptyDict
    /\ AUTHORIZED # <<>>
    /\ AUTHENTICATED_STAFF_DETAILS # <<>>

\* C15: in AUTH_CHOICE a role selection moves the conversation to the email
\* state of a role, and every other input that is neither the start nor the
\* cancel command ends the conversation.
C15_RoleChoiceOrEnd ==
    [][(last'.from = AUTH_CHOICE /\ last'.op \in {"button_callback_handler", "none"}) =>
          IF last'.op = "button_callback_handler"
          THEN conv'[Key(last')] \in {GET_OWNER_EMAIL, GET_STAFF_EMAIL}
          ELSE conv'[Key(last')] = END]_vars

\* the Verifier call raised, its body could not be parsed, or it answered 200
\* without an identity id or without a token
FailedOrMalformed(resp) ==
    \/ resp.raises
    \/ ~resp.json
    \/ resp.status = 200 /\ (~resp.present \/ ~Truthy(resp.id) \/ ~Truthy(resp.token))

\* C16: in both password states a Verifier call that raises, whose body does
\* not parse, or that answers 200 without an identity id or a token ends the
\* conversation and leaves both mappings of the Session Store unchanged.
C16_FailedLoginEnds ==
    [][(/\ last'.op \in {"get_owner_password", "get_staff_password"}
        /\ last'.called
        /\ FailedOrMalformed(last'.resp)) =>
          conv' = [conv EXCEPT ![Key(last')] = END] /\ StoreUnchanged]_vars

\* an owner login answered 200 with a user id and no token, and a staff
\* conversation of another user still waiting for its password
C16_Witness ==
    /\ last.op = "get_owner_password"
    /\ last.called
    /\ last.resp.status = 200 /\ last.resp.json /\ ~last.resp.raises
    /\ Truthy(last.resp.id) /\ ~Truthy(last.resp.token)
    /\ conv[Key(last)] = END
    /\ \E d \in Dialogues : conv[d] = GET_STAFF_PASSWORD

\* the key under which the email of a conversation in a password state is held
EmailKey(state) == IF state = GET_OWNER_PASSWORD THEN "owner_email" ELSE "staff_email"

\* C19: the email a conversation collected and holds for its password step is
\* not changed or removed by a handler that runs for another conversation,
\* the same user's conversation in another chat included; so a password that
\* is not blank always leads to a Verifier call.
C19_EmailPerDialogue ==
    [][/\ \A d \in Dialogues :
              (/\ conv[d] \in {GET_OWNER_PASSWORD, GET_STAFF_PASSWORD}
               /\ last'.op \notin {"init", "handle_notify"}
               /\ Key(last') # d) =>
                  UserDataGet(user_data'[d[2]], EmailKey(conv[d]))
                      = UserDataGet(user_data[d[2]], EmailKey(conv[d]))
       /\ (/\ last'.op \in {"get_owner_password", "get_staff_password"}
           /\ ~last'.blank) => last'.called]_vars

\* the sessions a mapping holds under key k
EntriesOf(d, k) == {d[i] : i \in {j \in 1..Len(d) : d[j].key = k}}

\* the Verifier answered 200 with an identity id and a token
Accepted(resp) ==
    /\ ~resp.raises
    /\ resp.status = 200
    /\ resp.json
    /\ resp.present
    /\ Truthy(resp.id)
    /\ Truthy(resp.token)

\* C21: a session comes into a mapping, or is changed, only in a password
\* step of its own key (the user for an owner session, the chat for a staff
\* session) whose Verifier call of that role was answered 200 with an
\* identity id and a token; a start command leaves no session of its user
\* and none of its chat; so a session that exists was stored by such a
\* password step since the last start of its key, and no other handler
\* creates or changes one.
C21_SessionsOnlyByLogin ==
    [][/\ \A u \in Users :
              ~(EntriesOf(AUTHORIZED', u) \subseteq EntriesOf(AUTHORIZED, u)) =>
                  /\ last'.op = "get_owner_password"
                  /\ last'.u = u
                  /\ last'.called
                  /\ Accepted(last'.resp)
       /\ \A c \in Chats :
              ~(EntriesOf(AUTHENTICATED_STAFF_DETAILS', c)
                    \subseteq EntriesOf(AUTHENTICATED_STAFF_DETAILS, c)) =>
                  /\ last'.op = "get_staff_password"
                  /\ last'.c = c
                  /\ last'.called
                  /\ Accepted(last'.resp)
       /\ last'.op = "start" =>
              /\ EntriesOf(AUTHORIZED', last'.u) = {}
              /\ EntriesOf(AUTHENTICATED_STAFF_DETAILS', last'.c) = {}
       /\ last'.op \notin {"start", "get_owner_password", "get_staff_password"} =>
              StoreUnchanged]_vars

\* a first owner login of a user, stored beside a staff session
C21_Witness ==
    /\ OwnerLoggedIn(last)
    /\ Accepted(last.resp)
    /\ ~last.had
    /\ EntriesOf(AUTHORIZED, last.u) # {}
    /\ AUTHENTICATED_STAFF_DETAILS # <<>>

\* C23 as claimed: when a handler takes the conversation it runs for from a
\* password state to Done (successful login, malformed 200, transport
\* failure, cancel), the email that conversation collected is no longer held
\* in its user's user_data.
C23_DoneDestroysEmail ==
    [][\A d \in Dialogues :
           (/\ last'.op \notin {"init", "handle_notify"}
            /\ Key(last') = d
            /\ conv[d] \in {GET_OWNER_PASSWORD, GET_STAFF_PASSWORD}
            /\ conv'[d] = END) =>
               UserDataGet(user_data'[d[2]], EmailKey(conv[d])) = <<>>]_vars

\* the part of C23 that cancel keeps: a cancel that ends a conversation
\* leaves nothing in its user's user_data
C23_CancelDestroysEmail ==
    [][\A d \in Dialogues :
           (/\ last'.op = "cancel"
            /\ Key(last') = d
            /\ conv[d] # END
            /\ conv'[d] = END) => user_data'[d[2]] = EmptyDict]_vars

(***************************************************************************)
(* Properties of the Notification Router (checked under SpecNotify)        *)
(***************************************************************************)
\* a POST /notify has been answered
Answered == npc = "idle" /\ handled > 0

\* the request body is an object whose message is a non-empty string
UsableMessage(ev) == ev.parse = "object" /\ IsStr(ev.message) /\ Truthy(ev.message)

\* the send_message calls of the request to chat c, for the owner or the staff
Dispatches(to, c) == {i \in 1..Len(sent) : sent[i].to = to /\ sent[i].chat = c}

\* C1: every POST /notify whose body parses and carries a message is answered
\* 200 with status "ok", whatever the other fields (websiteId a string or a
\* number), the Session Store and the outcome of each dispatch.
C1_AlwaysAcknowledged ==
    (Answered /\ UsableMessage(nreq)) => nresp = Response(200, "ok")

\* C2: a request with notifyAllStaff set dispatches exactly one message to
\* each chat whose staff session has the event's tenant id, and none to any
\* other chat.
C2_StaffFanOut ==
    (Answered /\ UsableMessage(nreq) /\ Truthy(Get(nreq.notifyAllStaff, PyFalse))) =>
        \A c \in Chats :
            Cardinality(Dispatches("staff", c)) =
                IF \E i \in 1..Len(store0.staff) :
                       /\ store0.staff[i].key = c
                       /\ store0.staff[i].website_id = Get(nreq.websiteId, Str("N/A"))
                THEN 1 ELSE 0

\* the owner sessions that carry the backend id the request names
OwnersWith(id) == {i \in 1..Len(store0.owners) : store0.owners[i].user_id = id}

OwnerDispatches == {i \in 1..Len(sent) : sent[i].to = "owner"}

\* C3: with notifyOwner set and an ownerId given, exactly one message goes to
\* the chat of an owner session with that backend id when there is one; when
\* there is none, no owner message is sent and the request is still answered
\* 200; with the flag unset or no ownerId, no owner message is sent.
C3_OwnerRouting ==
    (Answered /\ UsableMessage(nreq)) =>
        IF Truthy(Get(nreq.notifyOwner, PyFalse)) /\ Truthy(Get(nreq.ownerId, None))
        THEN IF OwnersWith(nreq.ownerId) # {}
             THEN /\ Cardinality(OwnerDispatches) = 1
                  /\ \E i \in OwnersWith(nreq.ownerId) :
                         Dispatches("owner", store0.owners[i].chat_id) # {}
             ELSE OwnerDispatches = {} /\ nresp = Response(200, "ok")
        ELSE OwnerDispatches = {}

\* C10: a POST /notify whose body does not parse or has no message field is
\* answered 400 with status "error", and nothing is dispatched.
C10_BadRequest ==
    (Answered /\ (nreq.parse # "object" \/ nreq.message = Absent)) =>
        nresp = Response(400, "error") /\ sent = <<>>

\* the staff sessions of the mapping, from place from on, with the tenant id
\* of the request
Remaining(from) ==
    {i \in from..Len(AUTHENTICATED_STAFF_DETAILS) :
        AUTHENTICATED_STAFF_DETAILS[i].website_id = Get(nreq.websiteId, Str("N/A"))}

First(S) == CHOOSE i \in S : \A j \in S : i <= j

\* the step in which the send_message in flight raises
DispatchRaises ==
    /\ npc \in {"owner_send", "staff_send"}
    /\ sent' # sent
    /\ sent'[Len(sent)].outcome = "raised"

\* what follows a dispatch: a dispatch to the first staff session of M, or,
\* with none left, the response 200
FanOutGoesOn(M) ==
    IF M # {}
    THEN /\ npc' = "staff_send"
         /\ Len(sent') = Len(sent) + 1
         /\ sent'[Len(sent')].to = "staff"
         /\ sent'[Len(sent')].chat = AUTHENTICATED_STAFF_DETAILS[First(M)].key
    ELSE /\ npc' = "idle"
         /\ Len(sent') = Len(sent)
         /\ nresp' = Response(200, "ok")

StrOf(v) == IF v = None THEN "None" ELSE v[2]

\* C13: in the staff fan-out of a request that is answered 200, a chat is
\* dispatched to if and only if the string form of the tenant id of its staff
\* session equals the string form of the request's tenant id (a session
\* stored with the number 1 matches the websiteId "1").
C13_TenantMatchByString ==
    (/\ Answered
     /\ UsableMessage(nreq)
     /\ Truthy(Get(nreq.notifyAllStaff, PyFalse))
     /\ nresp = Response(200, "ok")
     /\ AUTHENTICATED_STAFF_DETAILS = store0.staff) =>
        \A c \in Chats :
            Dispatches("staff", c) # {}
                <=> \E i \in 1..Len(store0.staff) :
                        /\ store0.staff[i].key = c
                        /\ StrOf(store0.staff[i].website_id)
                               = StrOf(Get(nreq.websiteId, Str("N/A")))

\* C17: a request with a message and neither notifyOwner nor notifyAllStaff
\* set is answered 200 with status "ok" and dispatches nothing, whatever the
\* Session Store holds and whatever ownerId and websiteId it carries.
C17_NoFlagsNoDispatch ==
    (/\ Answered
     /\ UsableMessage(nreq)
     /\ ~Truthy(Get(nreq.notifyOwner, PyFalse))
     /\ ~Truthy(Get(nreq.notifyAllStaff, PyFalse))) =>
        nresp = Response(200, "ok") /\ sent = <<>>

\* C18: while the staff loop of a request is suspended in a send_message, no
\* dialogue handler adds a key to or removes a key from the staff mapping,
\* and a staff loop that has begun ends in the response 200.
C18_FanOutUndisturbed ==
    [][npc = "staff_send" =>
          /\ DictKeys(AUTHENTICATED_STAFF_DETAILS') = DictKeys(AUTHENTICATED_STAFF_DETAILS)
          /\ npc' = "idle" => nresp' = Response(200, "ok")]_vars

(***************************************************************************)
(* Properties of the update queue (checked under SpecUpdates)              *)
(***************************************************************************)
\* a cancel command of the conversation whose Verifier call is in flight
\* waits on the queue
CancelPending ==
    /\ call # NoCall
    /\ \E i \in 1..Len(update_queue) :
           /\ update_queue[i].kind = "cmd_cancel"
           /\ update_queue[i].late
           /\ update_queue[i].c = call.c
           /\ update_queue[i].u = call.u

\* the step that takes a cancel command sent during a Verifier call
LateCancelTaken ==
    /\ call = NoCall
    /\ update_queue # <<>>
    /\ update_queue' = Tail(update_queue)
    /\ Head(update_queue).kind = "cmd_cancel"
    /\ Head(update_queue).late

\* C20: when a cancel command is sent while the Verifier call of a password
\* step is in flight, the call completes and its result is discarded: its
\* answer, a successful one included, leaves both mappings of the Session
\* Store unchanged, and once the cancel has been taken the conversation has
\* ended.
C20_CancelDiscardsLogin ==
    [][/\ (CancelPending /\ call' = NoCall) => StoreUnchanged
       /\ LateCancelTaken => conv'[<<Head(update_queue).c, Head(update_queue).u>>] = END]_vars


(***************************************************************************)
(* Properties of the webhook endpoint after main()'s startup (checked      *)
(* under SpecWebhook)                                                      *)
(***************************************************************************)
\* C22 as claimed, in the part a finite run decides: after main()'s startup,
\* an update that POST /telegram/webhook accepted with 200 and put on the
\* update queue can be taken from it and handled as soon as no handler is
\* running (without which no fairness of the processing takes it); a body
\* that is not JSON gets 400, and an application that is None gets 500.
C22_AcceptedUpdateIsTaken ==
    /\ (update_queue # <<>> /\ call = NoCall) => (ENABLED Fetch)
    /\ (webhook.body.parse = "invalid") => (webhook.status = 400)
    /\ (webhook.status # 0 /\ app = "None") => (webhook.status = 500)

\* the parts of C22 that the endpoint keeps: a request answered with 400 or
\* 500 puts nothing on the queue, one answered with 200 puts its update last
C22_RefusedPutsNothing ==
    [][/\ (webhook' # webhook /\ webhook'.status # 200) => UNCHANGED update_queue
       /\ (webhook' # webhook /\ webhook'.status = 200) =>
              /\ Len(update_queue') = Len(update_queue) + 1
              /\ update_queue'[Len(update_queue')].kind = webhook'.body.kind]_vars
====
